---- MODULE Spec2Model ----
(***************************************************************************)
(* Development server with API proxy (src/app/test-server.py).             *)
(*                                                                         *)
(* One request is handled at a time: the server waits, a handler object    *)
(* is created for the request, one of do_GET / do_POST / do_OPTIONS runs   *)
(* to completion, and the server waits again.  The variables below are the *)
(* handler's fields (path, headers), what the request did to the outside   *)
(* world (bytes written to the caller, requests sent to the backend, the   *)
(* file the static responder was asked for, console lines), and the inputs *)
(* the environment supplied (the filesystem's answer to isdir, the         *)
(* backend's behaviour).                                                   *)
(*                                                                         *)
(* Strings are TLA+ strings; paths and cookie values are handled character *)
(* by character as the Python string methods do.  `wire' holds what the    *)
(* handler itself writes: status lines, the header lines it passes to      *)
(* send_header, the end of the header block, and bodies.  The Server and   *)
(* Date lines that the base class adds to every status line, and the       *)
(* Content-Type / Content-Length lines of its error pages, are part of the *)
(* status line item and are not listed separately.                         *)
(***************************************************************************)
EXTENDS Integers, Sequences, FiniteSets, TLC

VARIABLES
    running,    \* serve_forever is looping (run_server)
    phase,      \* "waiting" for a request | "responded" to one
    method,     \* the request's method, "" while waiting
    reqPath,    \* the request target as received
    path,       \* self.path when the handler returns
    request,    \* the request's headers and body
    isdir,      \* what os.path.isdir did: "True" | "False" | "raise" | "unused"
    file,       \* what the static responder found: "found" | "missing" | "unused"
    upstream,   \* what the backend did for this request, NoUpstream if unused
    route,      \* the branch the handler took
    wire,       \* what was written to the caller, in order
    outbound,   \* the requests sent to the backend, in order
    served,     \* the paths handed to the static file responder
    log         \* console lines, by tag

vars == <<running, phase, method, reqPath, path, request, isdir, file,
          upstream, route, wire, outbound, served, log>>

\* ------------------------------------------------------------------ bounds

MaxTail == 3
MaxHeaders == 2
MaxAttrs == 2

\* ----------------------------------------------------------------- strings

Char(s, i) == SubSeq(s, i, i)

\* str.startswith
StartsWith(s, p) == Len(s) >= Len(p) /\ SubSeq(s, 1, Len(p)) = p

\* str.find(sub, start) with 1-based positions; 0 when absent
RECURSIVE Find(_, _, _)
Find(s, sub, i) ==
    IF i + Len(sub) - 1 > Len(s) THEN 0
    ELSE IF SubSeq(s, i, i + Len(sub) - 1) = sub THEN i
    ELSE Find(s, sub, i + 1)

\* str.rfind(sub) with 1-based positions; 0 when absent
RECURSIVE RFindFrom(_, _, _)
RFindFrom(s, sub, i) ==
    IF i < 1 THEN 0
    ELSE IF SubSeq(s, i, i + Len(sub) - 1) = sub THEN i
    ELSE RFindFrom(s, sub, i - 1)

RFind(s, sub) == RFindFrom(s, sub, Len(s) - Len(sub) + 1)

\* sub in s
Contains(s, sub) == Find(s, sub, 1) # 0

\* str.replace(old, new): every non-overlapping occurrence, left to right
RECURSIVE Replace(_, _, _)
Replace(s, old, new) ==
    LET i == Find(s, old, 1)
    IN  IF i = 0 THEN s
        ELSE SubSeq(s, 1, i - 1) \o new
             \o Replace(SubSeq(s, i + Len(old), Len(s)), old, new)

UpperLetters == "ABCDEFGHIJKLMNOPQRSTUVWXYZ"
LowerLetters == "abcdefghijklmnopqrstuvwxyz"

\* The lower-case letter of each upper-case letter
LowerOf ==
    [c \in {Char(UpperLetters, i) : i \in 1..26} |->
        Char(LowerLetters, Find(UpperLetters, c, 1))]

\* str.lower
RECURSIVE Lower(_)
Lower(s) ==
    IF s = "" THEN ""
    ELSE LET c == Char(s, 1)
         IN  (IF c \in DOMAIN LowerOf THEN LowerOf[c] ELSE c) \o Lower(Tail(s))

\* s.split('/')[-1]
LastSegment(s) == SubSeq(s, RFind(s, "/") + 1, Len(s))

\* s up to, not including, the first occurrence of c
Before(s, c) ==
    LET i == Find(s, c, 1) IN IF i = 0 THEN s ELSE SubSeq(s, 1, i - 1)

\* urlparse(url).path for a request target of no scheme: the network
\* location after a leading "//" is split off, then the fragment, the query
\* and the parameters of the last segment.
UrlPath(url) ==
    LET cands == {Find(url, "/", 3), Find(url, "?", 3), Find(url, "#", 3)} \ {0}
        delim == IF cands = {} THEN Len(url) + 1
                 ELSE CHOOSE d \in cands : \A e \in cands : d <= e
        rest  == IF StartsWith(url, "//") THEN SubSeq(url, delim, Len(url))
                 ELSE url
        noq   == Before(Before(rest, "#"), "?")
        semi  == IF Contains(noq, "/")
                 THEN Find(noq, ";", RFind(noq, "/"))
                 ELSE Find(noq, ";", 1)
    IN  IF semi = 0 THEN noq ELSE SubSeq(noq, 1, semi - 1)

\* ------------------------------------------------------------ request side

\* The prefix test of do_GET
GetIsProxied(p) ==
    StartsWith(p, "/spa-api") \/ StartsWith(p, "/spwg-api") \/ StartsWith(p, "/theme/")

\* The prefix test of do_POST
PostIsProxied(p) ==
    StartsWith(p, "/spa-api") \/ StartsWith(p, "/spwg-api") \/ StartsWith(p, "/theme/")

\* The prefix test of log_message
LogIsProxied(p) ==
    StartsWith(p, "/spa-api") \/ StartsWith(p, "/spwg-api") \/ StartsWith(p, "/theme/")

\* log_message: only requests that are not proxied are logged
log_message(p) == IF ~LogIsProxied(p) THEN <<"[LOCAL]">> ELSE <<>>

PROXY_HOST == "https://iwalton.com"

\* self.headers.get(name, default); self.headers is a function on the names present
Get(h, name, default) == IF name \in DOMAIN h THEN h[name] ELSE default

Digits == "0123456789"

IsInt(s) ==
    /\ s # ""
    /\ \A i \in 1..Len(s) : Contains(Digits, Char(s, i))

RECURSIVE IntOf(_)
IntOf(s) ==
    IF s = "" THEN 0
    ELSE 10 * IntOf(SubSeq(s, 1, Len(s) - 1)) + (Find(Digits, Char(s, Len(s)), 1) - 1)

\* ------------------------------------------------------------ caller side

StatusLine(c, m) == [t |-> "status", code |-> c, message |-> m]
Header(n, v) == [t |-> "header", name |-> n, value |-> v]
EndHeaders == [t |-> "end_headers"]
Body(b) == [t |-> "body", data |-> b]

\* The reason phrase send_response uses when the handler gives none
StdPhrase(c) ==
    CASE c = 200 -> "OK"
      [] c = 201 -> "Created"
      [] c = 204 -> "No Content"
      [] OTHER -> ""

\* What a handler produces: bytes to the caller, requests to the backend,
\* files asked of the static responder, console lines.
Result(w, o, s, l) == [wire |-> w, outbound |-> o, served |-> s, log |-> l]

\* send_response(code, message): the status line, logged through log_message
send_response(p, c, m) == Result(<<StatusLine(c, m)>>, <<>>, <<>>, log_message(p))

\* send_error(code, message): logged as an error, then a complete response
\* whose body is the error page; no page for 1xx, 204, 205 and 304
send_error(p, c, m) ==
    Result(<<StatusLine(c, m), EndHeaders>>
             \o (IF c >= 200 /\ c \notin {204, 205, 304}
                 THEN <<Body("Error response: " \o m)>> ELSE <<>>),
           <<>>, <<>>, log_message(p) \o log_message(p))

\* One handler step after another
Then(a, b) ==
    Result(a.wire \o b.wire, a.outbound \o b.outbound, a.served \o b.served,
           a.log \o b.log)

Write(items) == Result(items, <<>>, <<>>, <<>>)
Say(tag) == Result(<<>>, <<>>, <<>>, <<tag>>)

CorsHeaders ==
    << Header("Access-Control-Allow-Origin", "*"),
       Header("Access-Control-Allow-Methods", "GET, POST, OPTIONS"),
       Header("Access-Control-Allow-Headers", "Content-Type") >>

\* ------------------------------------------------------------ backend side

\* What urlopen can do for a request: return a response (whose body may fail
\* to arrive after its head did), raise HTTPError for a status the default
\* handlers do not accept, or raise anything else.
UpOk(st, hs, b, rf) ==
    [kind |-> "ok", status |-> st, headers |-> hs, body |-> b, readFails |-> rf]
UpHTTPError(c, r) == [kind |-> "HTTPError", code |-> c, reason |-> r]
UpError(e) == [kind |-> "error", message |-> e]
NoUpstream == [kind |-> "unused"]

\* CopyHeader with the deny-list compared without lower-casing the name
CopyHeaderCaseSensitive(h) ==
    LET header == h[1]
        value  == h[2]
    IN  IF header \notin {"transfer-encoding", "connection"}
        THEN <<Header(header,
                      IF Lower(header) = "set-cookie"
                      THEN Replace(Replace(value, "; Secure", ""), ";Secure", "")
                      ELSE value)>>
        ELSE <<>>

\* One pass of the header loop: the lines sent for one upstream header
CopyHeader(h) ==
    LET header == h[1]
        value  == h[2]
        lower  == Lower(header)
    IN  IF lower \notin {"transfer-encoding", "connection"}
        THEN <<Header(header,
                      IF lower = "set-cookie"
                      THEN Replace(Replace(value, "; Secure", ""), ";Secure", "")
                      ELSE value)>>
        ELSE <<>>

\* for header, value in response.headers.items()
RECURSIVE CopyHeaders(_)
CopyHeaders(hs) ==
    IF hs = <<>> THEN <<>> ELSE CopyHeader(Head(hs)) \o CopyHeaders(Tail(hs))

\* OnHTTPError answering 500 in place of the upstream status
OnHTTPErrorAs500(p, code, reason) ==
    Then(Say("[PROXY ERROR]"), send_error(p, 500, reason))

\* except urllib.error.HTTPError as e
OnHTTPError(p, code, reason) ==
    Then(Say("[PROXY ERROR]"), send_error(p, code, reason))

\* OnException that prints the error and sends nothing
OnExceptionSilent(p, e) == Say("[PROXY ERROR]")

\* except Exception as e
OnException(p, e) ==
    Then(Say("[PROXY ERROR]"), send_error(p, 500, "Proxy error: " \o e))

\* The body of `with urlopen(req) as response': relay the response, and
\* whatever the except clause adds if reading the body raises.
RelayResponse(p, u) ==
    LET head == Then(send_response(p, u.status, StdPhrase(u.status)),
                     Write(CopyHeaders(u.headers) \o CorsHeaders \o <<EndHeaders>>))
    IN  IF u.readFails
        THEN Then(head, OnException(p, "IncompleteRead"))
        ELSE Then(head, Write(<<Body(u.body)>>))

\* The headers of the outbound request
OutboundHeaders(h) ==
    LET base == [n \in {"User-Agent", "Content-Type"} |->
                    IF n = "User-Agent" THEN Get(h, "User-Agent", "Mozilla/5.0")
                    ELSE Get(h, "Content-Type", "application/json")]
    IN  IF "Cookie" \in DOMAIN h
        THEN [n \in {"User-Agent", "Content-Type", "Cookie"} |->
                 IF n = "Cookie" THEN h["Cookie"] ELSE base[n]]
        ELSE base

\* urlopen(req): the request goes out once and the backend does u
UrlOpen(p, req, u) ==
    Then(Result(<<>>, <<req>>, <<>>, <<>>),
         CASE u.kind = "ok" -> RelayResponse(p, u)
           [] u.kind = "HTTPError" -> OnHTTPError(p, u.code, u.reason)
           [] OTHER -> OnException(p, u.message))

\* int(self.headers.get('Content-Length', 0)) does not raise, so urlopen is reached
ReachesBackend(m, rq) == m # "POST" \/ IsInt(Get(rq.headers, "Content-Length", "0"))

\* proxy_request(method) for self.path = p, the request rq and a backend doing u
proxy_request(m, p, rq, u) ==
    LET target_url == PROXY_HOST \o p
        cl == Get(rq.headers, "Content-Length", "0")
        content_length == IF m = "POST" THEN IntOf(cl) ELSE 0
        body == IF m = "POST" /\ content_length > 0
                THEN <<SubSeq(rq.body, 1, content_length)>> ELSE <<>>
        req == [url |-> target_url, data |-> body,
                headers |-> OutboundHeaders(rq.headers), method |-> m]
    IN  Then(Say("[PROXY]"),
             IF ReachesBackend(m, rq)
             THEN UrlOpen(p, req, u)
             ELSE OnException(p, "invalid literal for int()"))

\* The static file responder (SimpleHTTPRequestHandler.do_GET) asked for p
SimpleGET(p, f) ==
    Then(Result(<<>>, <<>>, <<p>>, <<>>),
         IF f = "found"
         THEN Then(send_response(p, 200, "OK"),
                   Write(<<EndHeaders, Body("file")>>))
         ELSE send_error(p, 404, "File not found"))

\* do_GET's test for "no extension and not the root": the directory check runs
ChecksDir(p) ==
    LET parsed == UrlPath(p)
    IN  ~Contains(LastSegment(parsed), ".") /\ parsed # "/"

\* do_GET's SPA rule: whether self.path is set to /index.html, d being what
\* os.path.isdir did ("True", "False" or "raise")
Rewrites(p, d) == ChecksDir(p) /\ d # "True"

\* Preflight without the Access-Control-Allow-Headers line
PreflightWithoutAllowHeaders(p) ==
    Then(send_response(p, 200, "OK"),
         Write(SubSeq(CorsHeaders, 1, 2) \o <<EndHeaders>>))

\* do_OPTIONS
Preflight(p) ==
    Then(send_response(p, 200, "OK"), Write(CorsHeaders \o <<EndHeaders>>))

\* ------------------------------------------------------------------ inputs

Alphabet == {"a", ".", "/", "?", ";"}

RECURSIVE Strings(_)
Strings(n) ==
    IF n = 0 THEN {""}
    ELSE LET S == Strings(n - 1) IN S \cup {s \o c : s \in S, c \in Alphabet}

\* Request targets: a head that is, or is close to, a forward prefix, or the
\* root, followed by any string over Alphabet of at most MaxTail characters.
\* Targets that begin "//" are left out: the base class rewrites them before
\* the handler runs in some versions of the library and not in others.
RoutePaths ==
    {p \in {h \o t : h \in {"/", "/spa-api", "/spwg-api", "/theme", "/theme/"},
                     t \in Strings(MaxTail)} : ~StartsWith(p, "//")}

ProxyPaths == {"/spa-api/ping", "/theme/x.css"}

Requests ==
    { [headers |-> <<>>, body |-> ""],
      [headers |-> [n \in {"Content-Length", "Cookie"} |->
                      IF n = "Cookie" THEN "sid=1" ELSE "2"], body |-> "hi"],
      [headers |-> [n \in {"Content-Length", "User-Agent"} |->
                      IF n = "User-Agent" THEN "curl/8" ELSE "x"], body |-> "hi"],
      [headers |-> [n \in {"Content-Length", "Content-Type"} |->
                      IF n = "Content-Type" THEN "text/plain" ELSE "0"], body |-> ""] }

RECURSIVE SeqsUpTo(_, _)
SeqsUpTo(S, n) ==
    IF n = 0 THEN {<<>>}
    ELSE LET P == SeqsUpTo(S, n - 1) IN P \cup {Append(q, x) : q \in P, x \in S}

\* Attributes a backend may put after a cookie's name=value pair
CookieAttrs == {"; Secure", ";Secure", "; secure", ";  Secure", "; HttpOnly", "; Path=/"}

RECURSIVE Concat(_)
Concat(q) == IF q = <<>> THEN "" ELSE Head(q) \o Concat(Tail(q))

CookieValues == {"session=abc" \o Concat(q) : q \in SeqsUpTo(CookieAttrs, MaxAttrs)}

HeaderPairs ==
    { <<"Content-Type", "application/json">>,
      <<"Transfer-Encoding", "chunked">>,
      <<"transfer-encoding", "chunked">>,
      <<"Connection", "close">>,
      <<"CONNECTION", "keep-alive">>,
      <<"X-Connection", "1">>,
      <<"Set-Cookie", "session=abc; Secure; HttpOnly">>,
      <<"set-cookie", "a=b;Secure">> }

HTTPErrors ==
    {UpHTTPError(c, r) : c \in {304, 404, 500, 503},
                         r \in {"Not Found", "Service Unavailable"}}

TransportErrors ==
    {UpError(e) : e \in {"<urlopen error [Errno 111] Connection refused>", "timed out"}}

FewUpstreams ==
    { UpOk(200, <<>>, "{\"ok\":true}", FALSE),
      UpOk(200, <<>>, "{\"ok\":true}", TRUE),
      UpHTTPError(404, "Not Found"),
      UpError("timed out") }

ManyUpstreams ==
    {UpOk(st, hs, b, rf) : st \in {200, 201}, hs \in SeqsUpTo(HeaderPairs, MaxHeaders),
                           b \in {"", "{\"ok\":true}"}, rf \in BOOLEAN}
    \cup {UpOk(200, <<<<n, v>>>>, "", FALSE) : n \in {"Set-Cookie", "set-cookie"},
                                               v \in CookieValues}
    \cup HTTPErrors \cup TransportErrors

\* ----------------------------------------------------------------- actions

Init ==
    /\ running = TRUE
    /\ phase = "waiting"
    /\ method = ""
    /\ reqPath = ""
    /\ path = ""
    /\ request = [headers |-> <<>>, body |-> ""]
    /\ isdir = "unused"
    /\ file = "unused"
    /\ upstream = NoUpstream
    /\ route = "none"
    /\ wire = <<>>
    /\ outbound = <<>>
    /\ served = <<>>
    /\ log = <<>>

\* The handler for (m, p, rq) returns: self.path is sp, it took branch rt and did r
Respond(m, p, sp, rq, d, f, u, rt, r) ==
    /\ phase' = "responded"
    /\ method' = m
    /\ reqPath' = p
    /\ path' = sp
    /\ request' = rq
    /\ isdir' = d
    /\ file' = f
    /\ upstream' = u
    /\ route' = rt
    /\ wire' = r.wire
    /\ outbound' = r.outbound
    /\ served' = r.served
    /\ log' = r.log
    /\ UNCHANGED running

do_GET(Paths, Ups) ==
    /\ running /\ phase = "waiting"
    /\ \E p \in Paths, rq \in Requests :
         IF GetIsProxied(p)
         THEN \E u \in (IF ReachesBackend("GET", rq) THEN Ups ELSE {NoUpstream}) :
                Respond("GET", p, p, rq, "unused", "unused", u, "Forward",
                        proxy_request("GET", p, rq, u))
         ELSE \E d \in (IF ChecksDir(p) THEN {"True", "False", "raise"} ELSE {"unused"}),
                 f \in {"found", "missing"} :
                LET sp == IF Rewrites(p, d) THEN "/index.html" ELSE p
                IN  Respond("GET", p, sp, rq, d, f, NoUpstream,
                            IF Rewrites(p, d) THEN "ServeFallback" ELSE "ServeFile",
                            SimpleGET(sp, f))

do_POST(Paths, Ups) ==
    /\ running /\ phase = "waiting"
    /\ \E p \in Paths, rq \in Requests :
         IF PostIsProxied(p)
         THEN \E u \in (IF ReachesBackend("POST", rq) THEN Ups ELSE {NoUpstream}) :
                Respond("POST", p, p, rq, "unused", "unused", u, "Forward",
                        proxy_request("POST", p, rq, u))
         ELSE Respond("POST", p, p, rq, "unused", "unused", NoUpstream,
                      "MethodNotAllowed", send_error(p, 405, "Method Not Allowed"))

do_OPTIONS(Paths) ==
    /\ running /\ phase = "waiting"
    /\ \E p \in Paths, rq \in Requests :
         Respond("OPTIONS", p, p, rq, "unused", "unused", NoUpstream,
                 "Preflight", Preflight(p))

\* The request is finished and serve_forever waits for the next one
finish_request ==
    /\ running /\ phase = "responded"
    /\ phase' = "waiting"
    /\ method' = ""
    /\ reqPath' = ""
    /\ path' = ""
    /\ request' = [headers |-> <<>>, body |-> ""]
    /\ isdir' = "unused"
    /\ file' = "unused"
    /\ upstream' = NoUpstream
    /\ route' = "none"
    /\ wire' = <<>>
    /\ outbound' = <<>>
    /\ served' = <<>>
    /\ log' = <<>>
    /\ UNCHANGED running

\* Ctrl+C while waiting: serve_forever ends
KeyboardInterrupt ==
    /\ running /\ phase = "waiting"
    /\ running' = FALSE
    /\ UNCHANGED <<phase, method, reqPath, path, request, isdir, file, upstream,
                   route, wire, outbound, served, log>>

\* Requests of every shape against a backend of few behaviours
Next ==
    \/ do_GET(RoutePaths, FewUpstreams)
    \/ do_POST(RoutePaths, FewUpstreams)
    \/ do_OPTIONS(RoutePaths)
    \/ finish_request
    \/ KeyboardInterrupt

Spec == Init /\ [][Next]_vars

\* Requests to two forwarded paths against a backend of every behaviour
NextProxy ==
    \/ do_GET(ProxyPaths \cup {"/", "/app.js"}, ManyUpstreams)
    \/ do_POST(ProxyPaths \cup {"/", "/app.js"}, ManyUpstreams)
    \/ do_OPTIONS(ProxyPaths \cup {"/", "/app.js"})
    \/ finish_request
    \/ KeyboardInterrupt

SpecProxy == Init /\ [][NextProxy]_vars

\* ------------------------------------------------------------------ claims

Responded == phase = "responded"

\* The items of one kind written to the caller, in order
Items(kind) == SelectSeq(wire, LAMBDA x : x.t = kind)

\* The forward prefixes as the specification lists them
SpecPrefixes == {"/spa-api/", "/spwg-api/", "/theme/"}
HasSpecPrefix(p) == \E pre \in SpecPrefixes : StartsWith(p, pre)

\* One complete response: a status line, header lines, the end of the
\* header block, and at most one body after it
WellFormed(w) ==
    /\ Len(w) >= 2
    /\ w[1].t = "status"
    /\ \E e \in 2..Len(w) :
         /\ w[e].t = "end_headers"
         /\ \A i \in 2..(e - 1) : w[i].t = "header"
         /\ Len(w) <= e + 1
         /\ Len(w) = e + 1 => w[e + 1].t = "body"

\* C1: a GET or POST request is forwarded (proxy_request is called) if and
\* only if its path starts with /spa-api/, /spwg-api/ or /theme/, and do_GET,
\* do_POST and log_message decide by the same predicate.
C1_ForwardIffSpecPrefix ==
    (Responded /\ method \in {"GET", "POST"}) =>
        /\ (route = "Forward") <=> HasSpecPrefix(reqPath)
        /\ GetIsProxied(reqPath) = PostIsProxied(reqPath)
        /\ GetIsProxied(reqPath) = LogIsProxied(reqPath)

\* C2: a GET outside the forward prefixes gets /index.html if and only if the
\* text after the last "/" of the request path has no ".", the path is not
\* "/" and it is no existing directory (a failing check counts as no
\* directory); otherwise the original path is served as a local file.
C2_FallbackIffNoExtension ==
    (Responded /\ method = "GET" /\ ~HasSpecPrefix(reqPath)) =>
        LET noExt == ~Contains(LastSegment(reqPath), ".") /\ reqPath # "/"
        IN  /\ (noExt /\ isdir \in {"False", "raise"}) =>
                 (route = "ServeFallback" /\ served = <<"/index.html">>)
            /\ (~noExt \/ isdir = "True") =>
                 (route = "ServeFile" /\ served = <<reqPath>>)

\* C3: OPTIONS on any path answers 200 with exactly the three CORS headers
\* and no body, sends nothing to the backend and looks up no file.
C3_PreflightFixed ==
    (Responded /\ method = "OPTIONS") =>
        /\ WellFormed(wire)
        /\ wire[1].code = 200
        /\ Items("header") =
             << [t |-> "header", name |-> "Access-Control-Allow-Origin", value |-> "*"],
                [t |-> "header", name |-> "Access-Control-Allow-Methods",
                 value |-> "GET, POST, OPTIONS"],
                [t |-> "header", name |-> "Access-Control-Allow-Headers",
                 value |-> "Content-Type"] >>
        /\ Items("body") = <<>>
        /\ outbound = <<>>
        /\ served = <<>>

C3_Witness ==
    Responded /\ method = "OPTIONS" /\ reqPath = "/spa-api/" /\ route = "Preflight"

\* The backend answered and its body arrived
Relayed ==
    /\ Responded /\ route = "Forward"
    /\ upstream.kind = "ok" /\ ~upstream.readFails

\* Transfer-Encoding and Connection, in any case
IsDenied(name) == Lower(name) \in {"transfer-encoding", "connection"}

\* The upstream headers that are not denied, in upstream order
Kept == SelectSeq(upstream.headers, LAMBDA h : ~IsDenied(h[1]))

\* C4: a successful upstream answer reaches the caller with the upstream
\* status, the upstream body unchanged, every upstream header but
\* Transfer-Encoding and Connection (any case) in upstream order, then the
\* three CORS headers; no Transfer-Encoding or Connection header gets through.
C4_RelayFaithful ==
    Relayed =>
        LET hs == Items("header")
        IN  /\ WellFormed(wire)
            /\ wire[1].code = upstream.status
            /\ Items("body") = <<[t |-> "body", data |-> upstream.body]>>
            /\ Len(hs) = Len(Kept) + 3
            /\ \A i \in 1..Len(Kept) : hs[i].name = Kept[i][1]
            /\ \A i \in 1..Len(Kept) :
                 Lower(Kept[i][1]) # "set-cookie" => hs[i].value = Kept[i][2]
            /\ SubSeq(hs, Len(Kept) + 1, Len(hs)) = CorsHeaders
            /\ \A i \in 1..Len(hs) : ~IsDenied(hs[i].name)

C4_Witness ==
    /\ Relayed
    /\ upstream.status = 201
    /\ upstream.body = "{\"ok\":true}"
    /\ upstream.headers = << <<"transfer-encoding", "chunked">>,
                             <<"Content-Type", "application/json">> >>

\* C5: every response to a GET or POST on a forward-prefix path carries the
\* three CORS headers, whatever the backend did.
C5_CorsOnEveryForwardedResponse ==
    (Responded /\ method \in {"GET", "POST"} /\ HasSpecPrefix(reqPath)) =>
        \A i \in 1..3 : \E j \in 1..Len(wire) : wire[j] = CorsHeaders[i]

\* s.split(c)
RECURSIVE Split(_, _)
Split(s, c) ==
    LET i == Find(s, c, 1)
    IN  IF i = 0 THEN <<s>>
        ELSE <<SubSeq(s, 1, i - 1)>> \o Split(SubSeq(s, i + 1, Len(s)), c)

\* s without the spaces at its ends
RECURSIVE Strip(_)
Strip(s) ==
    IF s # "" /\ Char(s, 1) = " " THEN Strip(Tail(s))
    ELSE IF s # "" /\ Char(s, Len(s)) = " " THEN Strip(SubSeq(s, 1, Len(s) - 1))
    ELSE s

\* A cookie's name=value pair and attributes, in order, spacing aside
CookieParts(v) ==
    LET parts == Split(v, ";") IN [i \in 1..Len(parts) |-> Strip(parts[i])]

\* The Secure attribute; attribute names are case-insensitive
IsSecureAttr(a) == Lower(a) = "secure"

\* C6: each Set-Cookie value reaches the caller with its Secure attribute
\* removed and the pair and other attributes unchanged and in order; headers
\* other than Set-Cookie are passed through unmodified.
C6_SecureStripped ==
    Relayed =>
        LET hs == Items("header")
        IN  \A i \in 1..Len(Kept) :
              IF Lower(Kept[i][1]) = "set-cookie"
              THEN CookieParts(hs[i].value) =
                     SelectSeq(CookieParts(Kept[i][2]), LAMBDA a : ~IsSecureAttr(a))
              ELSE hs[i].value = Kept[i][2]

\* C7: whatever fails while a request is handled, the caller receives one
\* well-formed response: one status line, one header block, one body.
C7_OneWellFormedResponse == Responded => WellFormed(wire)

\* The outbound call was made and failed otherwise than by an HTTP error
TransportFailed ==
    /\ Responded /\ route = "Forward" /\ HasSpecPrefix(reqPath)
    /\ upstream.kind = "error"

\* C8: when the backend is unreachable the caller gets 500 with a non-empty
\* message after a single outbound attempt, and the server goes on serving:
\* its next step is to wait for the next request exactly as a fresh server.
C8_TransportErrorIs500 ==
    /\ [](TransportFailed =>
            /\ WellFormed(wire)
            /\ wire[1].code = 500
            /\ wire[1].message # ""
            /\ Len(Items("body")) = 1 /\ Items("body")[1].data # ""
            /\ Len(outbound) = 1
            /\ running)
    /\ [][TransportFailed => Init']_vars

C8_Witness ==
    /\ TransportFailed /\ method = "POST"
    /\ upstream.message = "timed out"

\* The backend answered with an HTTP error
UpstreamRefused ==
    /\ Responded /\ route = "Forward"
    /\ upstream.kind = "HTTPError"

\* C9: an upstream HTTP error reaches the caller with the same status code
\* and reason phrase, after one outbound request; no 500 replaces it.
C9_HTTPErrorVerbatim ==
    UpstreamRefused =>
        /\ WellFormed(wire)
        /\ wire[1].code = upstream.code
        /\ wire[1].message = upstream.reason
        /\ Len(outbound) = 1

C9_Witness ==
    /\ UpstreamRefused
    /\ upstream.code = 503 /\ upstream.reason = "Service Unavailable"
    /\ wire[1].code = 503

\* C10: a POST to a path outside the forward prefixes is answered 405; no
\* request goes to the backend, no file is served, no fallback applies.
C10_PostOutsidePrefixIs405 ==
    (Responded /\ method = "POST" /\ ~HasSpecPrefix(reqPath)) =>
        /\ route = "MethodNotAllowed"
        /\ WellFormed(wire)
        /\ wire[1].code = 405
        /\ outbound = <<>>
        /\ served = <<>>

====
